---------------------------- MODULE Spec2Model ----------------------------
(***************************************************************************)
(* Model of the fileapi module of simple-file-manager (src/src/lib.rs).    *)
(*                                                                         *)
(* A text is a sequence of one-character strings.  The file system is     *)
(* reduced to the single path the FileAPI handle names.  A panic (a        *)
(* failed unwrap, an index out of bounds, an arithmetic overflow) ends     *)
(* the run: the state in which last.status = "panic" shows the memory at   *)
(* the point of the panic and has no successor.                            *)
(***************************************************************************)
EXTENDS Integers, Sequences, FiniteSets, TLC

\* ------------------------------------------------------------------ bounds
\* usize is modelled with a scaled-down modulus: values are 0 .. UsizeModulus-1
UsizeModulus == 8
\* longest text enumerated exhaustively as an initial file content
MaxLen == 2
\* largest number of values a Reader queues
MaxQueue == 2
\* largest number of change_value calls on one Changer
MaxEdits == 1
\* largest number of write_line calls on one Builder
MaxBuild == 2
\* largest number of calls in one run
MaxCalls == 6

\* -------------------------------------------------------------- characters
LF == "\n"
CR == "\r"
SP == " "
COMMA == ","

Digits == {"0", "1", "2", "3", "4", "5", "6", "7", "8", "9"}

\* char::is_whitespace restricted to the characters of the model
IsWhitespace(c) == c \in {SP, LF, CR}

DigitVal(c) ==
    CASE c = "0" -> 0 [] c = "1" -> 1 [] c = "2" -> 2 [] c = "3" -> 3
      [] c = "4" -> 4 [] c = "5" -> 5 [] c = "6" -> 6 [] c = "7" -> 7
      [] c = "8" -> 8 [] c = "9" -> 9

\* ------------------------------------------------------------ str helpers
Last(s) == s[Len(s)]
Front(s) == SubSeq(s, 1, Len(s) - 1)

RECURSIVE Concat(_)
\* the concatenation of a sequence of texts
Concat(ss) == IF ss = <<>> THEN <<>> ELSE Head(ss) \o Concat(Tail(ss))

RECURSIVE SplitInclusive(_, _, _)
\* str::split_inclusive(c): the pieces keep their terminator; a text that ends
\* with the terminator has no empty last piece.  cur is the piece being read.
SplitInclusive(s, c, cur) ==
    IF s = <<>> THEN (IF cur = <<>> THEN <<>> ELSE <<cur>>)
    ELSE IF Head(s) = c
         THEN <<Append(cur, c)>> \o SplitInclusive(Tail(s), c, <<>>)
         ELSE SplitInclusive(Tail(s), c, Append(cur, Head(s)))

\* the map of str::lines: strip one "\n", and then one "\r" before it
StripLineEnd(piece) ==
    IF piece # <<>> /\ Last(piece) = LF
    THEN LET p == Front(piece)
         IN  IF p # <<>> /\ Last(p) = CR THEN Front(p) ELSE p
    ELSE piece

\* str::lines
str_lines(s) ==
    LET pieces == SplitInclusive(s, LF, <<>>)
    IN  [i \in 1..Len(pieces) |-> StripLineEnd(pieces[i])]

RECURSIVE SplitAcc(_, _, _)
SplitAcc(s, c, cur) ==
    IF s = <<>> THEN <<cur>>
    ELSE IF Head(s) = c
         THEN <<cur>> \o SplitAcc(Tail(s), c, <<>>)
         ELSE SplitAcc(Tail(s), c, Append(cur, Head(s)))

\* str::split(char): always at least one piece, empty pieces kept
str_split(s, c) == SplitAcc(s, c, <<>>)

RECURSIVE join(_, _)
\* [&str]::join(sep)
join(pieces, sep) ==
    IF pieces = <<>> THEN <<>>
    ELSE IF Len(pieces) = 1 THEN pieces[1]
    ELSE pieces[1] \o <<sep>> \o join(Tail(pieces), sep)

RECURSIVE TrimStart(_)
TrimStart(s) ==
    IF s # <<>> /\ IsWhitespace(Head(s)) THEN TrimStart(Tail(s)) ELSE s

RECURSIVE TrimEnd(_)
TrimEnd(s) ==
    IF s # <<>> /\ IsWhitespace(Last(s)) THEN TrimEnd(Front(s)) ELSE s

\* str::trim
trim(s) == TrimEnd(TrimStart(s))

RECURSIVE DecimalValue(_, _)
DecimalValue(s, acc) ==
    IF s = <<>> THEN acc ELSE DecimalValue(Tail(s), 10 * acc + DigitVal(Head(s)))

\* str::parse::<usize>: a non-empty run of decimal digits, nothing else
\* (no surrounding whitespace, no empty string); the texts of the model are too
\* short for the value to exceed usize.
parse(s) ==
    IF s # <<>> /\ \A i \in 1..Len(s) : s[i] \in Digits
    THEN [ok |-> TRUE, val |-> DecimalValue(s, 0)]
    ELSE [ok |-> FALSE, val |-> 0]


\* ------------------------------------------------------------ usize, Vec
UsizeMax == UsizeModulus - 1

\* a - b on usize that saturates at 0
usize_sub_saturating(a, b, checks) ==
    [ok |-> TRUE, val |-> IF a >= b THEN a - b ELSE 0]

\* a - b on usize: a build with overflow checks panics on underflow, a build
\* without them wraps
usize_sub(a, b, checks) ==
    IF a >= b THEN [ok |-> TRUE, val |-> a - b]
    ELSE IF checks THEN [ok |-> FALSE, val |-> 0]
    ELSE [ok |-> TRUE, val |-> (a + UsizeModulus - b) % UsizeModulus]

\* v[i] with a 0-based index is in bounds
InBounds(v, i) == i < Len(v)

\* ----------------------------------------------------------------- state
VARIABLES
    fs,        \* the file at the handle's path: [exists, text]
    file,      \* the FileAPI handle: [split]
    reader,    \* the live Reader, or NoSession
    changer,   \* the live Changer, or NoSession
    other,     \* a second Changer open on the same path, or NoSession
    builder,   \* the live Builder, or NoSession
    overflow_checks, \* the build panics on arithmetic overflow (debug) or wraps (release)
    last,      \* the most recent call: [op, args, status, result]
    calls,     \* the number of calls made so far
    log        \* history: the arguments of the calls made on the live sessions

vars == <<fs, file, reader, changer, other, builder, overflow_checks, last, calls, log>>

NoSession == [live |-> FALSE]
NoFile == [exists |-> FALSE, text |-> <<>>]
FileOf(text) == [exists |-> TRUE, text |-> text]

Ok(op, args, result) ==
    [op |-> op, args |-> args, status |-> "ok", result |-> result]
Panic(op, args) ==
    [op |-> op, args |-> args, status |-> "panic", result |-> <<>>]

\* a panic ends the run
Running == last.status = "ok"

\* a step of a specification that bounds the number of calls of a run; the
\* call is not one on the second Changer
Counted(A) == calls < MaxCalls /\ calls' = calls + 1 /\ other' = other /\ A

\* a step of a specification that is finite without counting the calls
Uncounted(A) == calls' = calls /\ other' = other /\ A

\* ------------------------------------------------- operations (pure parts)
\* Reader::from: File::open(..).unwrap(), read_to_string(..).unwrap()
Reader_from(f) ==
    IF f.exists
    THEN [ok |-> TRUE, val |-> [live |-> TRUE, lines |-> f.text, values |-> <<>>]]
    ELSE [ok |-> FALSE, val |-> NoSession]

\* Reader::read_to_string
read_to_string(r) == r.lines

\* read_value that indexes the fields by row instead of row - 1
read_value_row_not_decremented(r, d, line, row, checks) ==
    LET ls == str_lines(r.lines)
        li == usize_sub(line, 1, checks)
    IN  IF ~li.ok \/ ~InBounds(ls, li.val) THEN [ok |-> FALSE, val |-> r]
        ELSE LET a_line == str_split(ls[li.val + 1], d)
             IN  IF ~InBounds(a_line, row) THEN [ok |-> FALSE, val |-> r]
                 ELSE [ok |-> TRUE,
                       val |-> [r EXCEPT !.values = Append(@, a_line[row + 1])]]

\* Reader::read_value: the field pushed on self.values, or a panic at one of
\* the two index expressions
read_value(r, d, line, row, checks) ==
    LET ls == str_lines(r.lines)
        li == usize_sub(line, 1, checks)
    IN  IF ~li.ok \/ ~InBounds(ls, li.val) THEN [ok |-> FALSE, val |-> r]
        ELSE LET a_line == str_split(ls[li.val + 1], d)
                 ri == usize_sub(row, 1, checks)
             IN  IF ~ri.ok \/ ~InBounds(a_line, ri.val) THEN [ok |-> FALSE, val |-> r]
                 ELSE [ok |-> TRUE,
                       val |-> [r EXCEPT !.values = Append(@, a_line[ri.val + 1])]]

RECURSIVE ParseAll(_, _)
\* iter().map(|v| v.trim().parse::<T>().unwrap()).collect(): the first failed
\* parse panics
ParseAll(vs, acc) ==
    IF vs = <<>> THEN [ok |-> TRUE, val |-> acc]
    ELSE LET p == parse(trim(Head(vs)))
         IN  IF p.ok THEN ParseAll(Tail(vs), Append(acc, p.val))
             ELSE [ok |-> FALSE, val |-> <<>>]

\* Reader::execute
Reader_execute(r) == ParseAll(r.values, <<>>)

\* Reader::read_line_parse
read_line_parse(line, d) == ParseAll(str_split(line, d), <<>>)

RECURSIVE HeaderLoop(_, _, _, _)
\* the loop of read_header: k iterations left, rest is the line iterator
HeaderLoop(rest, d, k, header) ==
    IF k = 0 THEN [ok |-> TRUE, val |-> header]
    ELSE IF rest = <<>> THEN [ok |-> FALSE, val |-> <<>>]
    ELSE LET line == read_line_parse(Head(rest), d)
         IN  IF line.ok THEN HeaderLoop(Tail(rest), d, k - 1, Append(header, line.val))
             ELSE [ok |-> FALSE, val |-> <<>>]

\* read_header without the check of len < 1
read_header_unchecked(r, d, len) == HeaderLoop(str_lines(r.lines), d, len, <<>>)

\* Reader::read_header
read_header(r, d, len) ==
    IF len < 1 THEN [ok |-> FALSE, val |-> <<>>]
    ELSE HeaderLoop(str_lines(r.lines), d, len, <<>>)

\* Reader::read_footer
read_footer(r, d) ==
    LET ls == str_lines(r.lines)
    IN  IF ls = <<>> THEN [ok |-> FALSE, val |-> <<>>]
        ELSE read_line_parse(Last(ls), d)

RECURSIVE BodyLoop(_, _, _, _, _, _)
\* the loop of read_body: for i in i..bound, rest is the line iterator
BodyLoop(rest, d, i, bound, header, context) ==
    IF i >= bound THEN [ok |-> TRUE, val |-> context]
    ELSE IF i < header
         THEN BodyLoop(IF rest = <<>> THEN rest ELSE Tail(rest),
                       d, i + 1, bound, header, context)
    ELSE IF rest = <<>> THEN [ok |-> FALSE, val |-> <<>>]
    ELSE LET line == read_line_parse(Head(rest), d)
         IN  IF line.ok
             THEN BodyLoop(Tail(rest), d, i + 1, bound, header, Append(context, line.val))
             ELSE [ok |-> FALSE, val |-> <<>>]

\* read_body that reads to the last line, whatever footer is
read_body_to_end(r, d, header, footer, checks) ==
    LET ls == str_lines(r.lines)
    IN  BodyLoop(ls, d, 0, Len(ls), header, <<>>)

\* Reader::read_body
read_body(r, d, header, footer, checks) ==
    LET ls == str_lines(r.lines)
        bound == usize_sub(Len(ls), footer, checks)
    IN  IF ~bound.ok THEN [ok |-> FALSE, val |-> <<>>]
        ELSE BodyLoop(ls, d, 0, bound.val, header, <<>>)

\* Reader::count_lines
count_lines(r) == Len(str_lines(r.lines))

\* read_csv splitting on the separator of the handle
CsvSeparator_configured == file.split

\* the separator of read_csv: split(',')
CsvSeparator == COMMA

RECURSIVE CsvMap(_, _, _, _)
\* the closure of read_csv mapped over the remaining lines; no trim here
CsvMap(rest, row, checks, data) ==
    IF rest = <<>> THEN [ok |-> TRUE, val |-> data]
    ELSE LET cells == str_split(Head(rest), CsvSeparator)
             ri == usize_sub(row, 1, checks)
         IN  IF ~ri.ok \/ ~InBounds(cells, ri.val) THEN [ok |-> FALSE, val |-> <<>>]
             ELSE LET p == parse(cells[ri.val + 1])
                  IN  IF p.ok THEN CsvMap(Tail(rest), row, checks, Append(data, p.val))
                      ELSE [ok |-> FALSE, val |-> <<>>]

\* Reader::read_csv
read_csv(r, row, checks) ==
    LET ls == str_lines(r.lines)
    IN  CsvMap(IF ls = <<>> THEN ls ELSE Tail(ls), row, checks, <<>>)

\* Changer::from
Changer_from(f) ==
    IF f.exists
    THEN [ok |-> TRUE, val |-> [live |-> TRUE, lines |-> str_lines(f.text)]]
    ELSE [ok |-> FALSE, val |-> NoSession]

\* change_value that splits the line into its non-empty fields only
change_value_skip_empty(c, d, line, row, value, checks) ==
    LET li == usize_sub(line, 1, checks)
    IN  IF ~li.ok \/ ~InBounds(c.lines, li.val) THEN [ok |-> FALSE, val |-> c]
        ELSE LET a_line == SelectSeq(str_split(c.lines[li.val + 1], d),
                                     LAMBDA cell : cell # <<>>)
                 ri == usize_sub(row, 1, checks)
             IN  IF ~ri.ok \/ ~InBounds(a_line, ri.val) THEN [ok |-> FALSE, val |-> c]
                 ELSE [ok |-> TRUE,
                       val |-> [c EXCEPT !.lines[li.val + 1] =
                                   join([a_line EXCEPT ![ri.val + 1] = value], d)]]

\* change_value with a row past the end of the line clamped to its last field
change_value_clamp(c, d, line, row, value, checks) ==
    LET li == usize_sub(line, 1, checks)
    IN  IF ~li.ok \/ ~InBounds(c.lines, li.val) THEN [ok |-> FALSE, val |-> c]
        ELSE LET a_line == str_split(c.lines[li.val + 1], d)
                 ri == usize_sub(row, 1, checks)
                 at == IF ri.ok /\ InBounds(a_line, ri.val) THEN ri.val + 1 ELSE Len(a_line)
             IN  IF ~ri.ok THEN [ok |-> FALSE, val |-> c]
                 ELSE [ok |-> TRUE,
                       val |-> [c EXCEPT !.lines[li.val + 1] =
                                   join([a_line EXCEPT ![at] = value], d)]]

\* change_value with the fields rejoined by a comma whatever the separator is
change_value_comma_join(c, d, line, row, value, checks) ==
    LET li == usize_sub(line, 1, checks)
    IN  IF ~li.ok \/ ~InBounds(c.lines, li.val) THEN [ok |-> FALSE, val |-> c]
        ELSE LET a_line == str_split(c.lines[li.val + 1], d)
                 ri == usize_sub(row, 1, checks)
             IN  IF ~ri.ok \/ ~InBounds(a_line, ri.val) THEN [ok |-> FALSE, val |-> c]
                 ELSE [ok |-> TRUE,
                       val |-> [c EXCEPT !.lines[li.val + 1] =
                                   join([a_line EXCEPT ![ri.val + 1] = value], COMMA)]]

\* Changer::change_value
change_value(c, d, line, row, value, checks) ==
    LET li == usize_sub(line, 1, checks)
    IN  IF ~li.ok \/ ~InBounds(c.lines, li.val) THEN [ok |-> FALSE, val |-> c]
        ELSE LET a_line == str_split(c.lines[li.val + 1], d)
                 ri == usize_sub(row, 1, checks)
             IN  IF ~ri.ok \/ ~InBounds(a_line, ri.val) THEN [ok |-> FALSE, val |-> c]
                 ELSE [ok |-> TRUE,
                       val |-> [c EXCEPT !.lines[li.val + 1] =
                                   join([a_line EXCEPT ![ri.val + 1] = value], d)]]

RECURSIVE WriteLines(_, _)
\* File::create truncates; then writeln!(file, "{}", line) for every line
WriteLines(lines, written) ==
    IF lines = <<>> THEN written
    ELSE WriteLines(Tail(lines), written \o Head(lines) \o <<LF>>)

\* execute with the file opened for appending instead of created anew
execute_file_append(before, lines) == FileOf(before.text \o WriteLines(lines, <<>>))

\* the file after File::create(path) and the writeln! loop of execute
execute_file(before, lines) == FileOf(WriteLines(lines, <<>>))

\* Builder::from
Builder_from == [live |-> TRUE, lines |-> <<>>]

\* Builder::write_line
write_line(b, line) == [b EXCEPT !.lines = Append(@, line)]

\* FileAPI::is_exist
is_exist(f) == f.exists


\* ---------------------------------------------------------------- inputs
Alphabet == {"1", COMMA, LF}
Delims == {COMMA, SP}
\* line, row and len arguments: 0, in range, and past the end of every file
Args == {0, 1, 2, 3}
\* header and footer arguments: the same, and the largest usize
BodyArgs == Args \cup {UsizeMax}

RECURSIVE TextsUpTo(_)
\* every text over Alphabet of length <= n
TextsUpTo(n) ==
    IF n = 0 THEN {<<>>}
    ELSE LET shorter == TextsUpTo(n - 1)
         IN  shorter \cup {Append(t, c) : t \in {u \in shorter : Len(u) = n - 1},
                                          c \in Alphabet}

\* file contents the runs start from: every short text, and some longer ones
\* (the grid of the documentation without and with a final newline, CRLF line
\* ends, padded fields, a field that is no number, lines of different widths)
Examples ==
    { <<"1", COMMA, "2", LF, "3", COMMA, "4", LF, "5", COMMA, "6">>,
      <<"1", COMMA, "2", LF, "3", COMMA, "4", LF>>,
      <<"1", COMMA, "2", CR, LF, "3", COMMA, "4", CR, LF>>,
      <<"1", SP, "2", LF, SP, "3", COMMA, "4", SP>>,
      <<"1", COMMA, "2", LF, "x">>,
      <<"1", COMMA, "2", LF, "3", CR>>,
      <<"1", "0", COMMA, "2", LF, "3", LF, "4", COMMA, "5", COMMA, "6", LF>> }

\* a file whose lines split on a space as well as on a comma
SpaceCsv == <<"1", SP, "2", LF, "3", SP, "4", COMMA, "5">>

InitTexts == TextsUpTo(MaxLen) \cup Examples \cup {SpaceCsv}

\* replacement values of change_value: a number, the empty text, a padded
\* number, a value holding a comma, a value holding a newline, a value ending in a
\* carriage return
Values ==
    { <<"7">>, <<>>, <<SP, "7">>, <<"7", COMMA, "8">>, <<"7", LF, "8">>, <<"7", CR>> }

NoLog == [reads |-> <<>>, orig |-> <<>>, edits |-> <<>>, other_edits |-> <<>>]

\* ------------------------------------------------------------------- Init
\* FileAPI::from(path): the default separator is a space; no session yet; the
\* file at the path is whatever the specification's Init puts there
Start ==
    /\ file = [split |-> SP]
    /\ reader = NoSession
    /\ changer = NoSession
    /\ other = NoSession
    /\ builder = NoSession
    /\ overflow_checks \in BOOLEAN
    /\ last = Ok("from", <<>>, <<>>)
    /\ calls = 0
    /\ log = NoLog

\* ---------------------------------------------------------------- actions
\* FileAPI::split takes the handle by value: no session borrows it
Split(c) ==
    /\ Running
    /\ ~reader.live /\ ~changer.live /\ ~builder.live
    /\ file' = [file EXCEPT !.split = c]
    /\ last' = Ok("split", <<c>>, <<>>)
    /\ UNCHANGED <<fs, reader, changer, builder, overflow_checks, log>>

\* FileAPI::is_exist
IsExist ==
    /\ Running
    /\ last' = Ok("is_exist", <<>>, is_exist(fs))
    /\ UNCHANGED <<fs, file, reader, changer, builder, overflow_checks, log>>

\* FileAPI::remove: remove_file(path).unwrap()
Remove ==
    /\ Running
    /\ IF fs.exists
       THEN fs' = NoFile /\ last' = Ok("remove", <<>>, <<>>)
       ELSE fs' = fs /\ last' = Panic("remove", <<>>)
    /\ UNCHANGED <<file, reader, changer, builder, overflow_checks, log>>

\* FileAPI::reader
MakeReader ==
    /\ Running
    /\ LET r == Reader_from(fs)
       IN  IF r.ok
           THEN /\ reader' = r.val
                /\ log' = [log EXCEPT !.reads = <<>>]
                /\ last' = Ok("reader", <<>>, <<>>)
           ELSE /\ last' = Panic("reader", <<>>)
                /\ UNCHANGED <<reader, log>>
    /\ UNCHANGED <<fs, file, changer, builder, overflow_checks>>

\* FileAPI::changer
MakeChanger ==
    /\ Running
    /\ LET c == Changer_from(fs)
       IN  IF c.ok
           THEN /\ changer' = c.val
                /\ log' = [log EXCEPT !.orig = fs.text, !.edits = <<>>]
                /\ last' = Ok("changer", <<>>, <<>>)
           ELSE /\ last' = Panic("changer", <<>>)
                /\ UNCHANGED <<changer, log>>
    /\ UNCHANGED <<fs, file, reader, builder, overflow_checks>>

\* builder() creating the file at once when it is missing
MakeBuilder_creates ==
    /\ Running
    /\ builder' = Builder_from
    /\ fs' = IF fs.exists THEN fs ELSE FileOf(<<>>)
    /\ last' = Ok("builder", <<>>, <<>>)
    /\ UNCHANGED <<file, reader, changer, overflow_checks, log>>

\* FileAPI::builder
MakeBuilder ==
    /\ Running
    /\ builder' = Builder_from
    /\ last' = Ok("builder", <<>>, <<>>)
    /\ UNCHANGED <<fs, file, reader, changer, overflow_checks, log>>

\* Reader::read_to_string
ReadToString ==
    /\ Running /\ reader.live
    /\ last' = Ok("read_to_string", <<>>, read_to_string(reader))
    /\ UNCHANGED <<fs, file, reader, changer, builder, overflow_checks, log>>

\* Reader::read_value (a call that would grow the queue past MaxQueue is not
\* taken; a failing call always is)
ReadValue(line, row) ==
    /\ Running /\ reader.live
    /\ LET r == read_value(reader, file.split, line, row, overflow_checks)
       IN  IF r.ok /\ Len(reader.values) >= MaxQueue THEN FALSE
           ELSE IF r.ok
           THEN /\ reader' = r.val
                /\ log' = [log EXCEPT !.reads = Append(@, <<line, row>>)]
                /\ last' = Ok("read_value", <<line, row>>, <<>>)
           ELSE /\ last' = Panic("read_value", <<line, row>>)
                /\ UNCHANGED <<reader, log>>
    /\ UNCHANGED <<fs, file, changer, builder, overflow_checks>>

\* a Reader operation that only returns a value
Query(op, args, r) ==
    /\ last' = IF r.ok THEN Ok(op, args, r.val) ELSE Panic(op, args)
    /\ UNCHANGED <<fs, file, reader, changer, builder, overflow_checks, log>>

\* Reader::execute
ReaderExecute ==
    /\ Running /\ reader.live
    /\ Query("reader_execute", <<>>, Reader_execute(reader))

\* Reader::read_header
ReadHeader(len) ==
    /\ Running /\ reader.live
    /\ Query("read_header", <<len>>, read_header(reader, file.split, len))

\* Reader::read_footer
ReadFooter ==
    /\ Running /\ reader.live
    /\ Query("read_footer", <<>>, read_footer(reader, file.split))

\* Reader::read_body
ReadBody(header, footer) ==
    /\ Running /\ reader.live
    /\ Query("read_body", <<header, footer>>,
             read_body(reader, file.split, header, footer, overflow_checks))

\* Reader::count_lines
CountLines ==
    /\ Running /\ reader.live
    /\ Query("count_lines", <<>>, [ok |-> TRUE, val |-> count_lines(reader)])

\* Reader::read_csv
ReadCsv(row) ==
    /\ Running /\ reader.live
    /\ Query("read_csv", <<row>>, read_csv(reader, row, overflow_checks))

\* Changer::change_value (a call that would be edit MaxEdits + 1 is not taken;
\* a failing call always is)
ChangeValue(line, row, value) ==
    /\ Running /\ changer.live
    /\ LET c == change_value(changer, file.split, line, row, value, overflow_checks)
       IN  IF c.ok /\ Len(log.edits) >= MaxEdits THEN FALSE
           ELSE IF c.ok
           THEN /\ changer' = c.val
                /\ log' = [log EXCEPT !.edits = Append(@, <<line, row, value>>)]
                /\ last' = Ok("change_value", <<line, row, value>>, <<>>)
           ELSE /\ last' = Panic("change_value", <<line, row, value>>)
                /\ UNCHANGED <<changer, log>>
    /\ UNCHANGED <<fs, file, reader, builder, overflow_checks>>

\* Changer::execute
ChangerExecute ==
    /\ Running /\ changer.live
    /\ fs' = execute_file(fs, changer.lines)
    /\ last' = Ok("changer_execute", <<>>, <<>>)
    /\ UNCHANGED <<file, reader, changer, builder, overflow_checks, log>>

\* write_line writing the line through to the file at once
WriteLine_through(line) ==
    /\ Running /\ builder.live
    /\ Len(builder.lines) < MaxBuild
    /\ builder' = write_line(builder, line)
    /\ fs' = execute_file(fs, builder'.lines)
    /\ last' = Ok("write_line", <<line>>, <<>>)
    /\ UNCHANGED <<file, reader, changer, overflow_checks, log>>

\* Builder::write_line
WriteLine(line) ==
    /\ Running /\ builder.live
    /\ Len(builder.lines) < MaxBuild
    /\ builder' = write_line(builder, line)
    /\ last' = Ok("write_line", <<line>>, <<>>)
    /\ UNCHANGED <<fs, file, reader, changer, overflow_checks, log>>

\* Builder::execute
BuilderExecute ==
    /\ Running /\ builder.live
    /\ fs' = execute_file(fs, builder.lines)
    /\ last' = Ok("builder_execute", <<>>, <<>>)
    /\ UNCHANGED <<file, reader, changer, builder, overflow_checks, log>>

\* ------------------------------------------------ the whole API, small inputs
\* one two-line file without a final newline, or no file
LifeTexts == { <<"1", COMMA, "2", LF, "3">> }
LifeArgs == {0, 1, 2}
LifeValues == { <<"7">>, <<"7", COMMA, "8">> }
LifeLines == { <<"1", COMMA, "2">>, <<>> }

Init ==
    /\ fs \in {NoFile} \cup {FileOf(t) : t \in LifeTexts}
    /\ Start

Next ==
    \/ Counted(\E c \in Delims : Split(c))
    \/ Counted(IsExist)
    \/ Counted(Remove)
    \/ Counted(MakeReader)
    \/ Counted(MakeChanger)
    \/ Counted(MakeBuilder)
    \/ Counted(ReadToString)
    \/ Counted(\E line \in LifeArgs, row \in LifeArgs : ReadValue(line, row))
    \/ Counted(ReaderExecute)
    \/ Counted(\E len \in LifeArgs : ReadHeader(len))
    \/ Counted(ReadFooter)
    \/ Counted(\E header \in LifeArgs, footer \in LifeArgs : ReadBody(header, footer))
    \/ Counted(CountLines)
    \/ Counted(\E row \in LifeArgs : ReadCsv(row))
    \/ Counted(\E line \in LifeArgs, row \in LifeArgs, value \in LifeValues :
                  ChangeValue(line, row, value))
    \/ Counted(ChangerExecute)
    \/ Counted(\E line \in LifeLines : WriteLine(line))
    \/ Counted(BuilderExecute)

Spec == Init /\ [][Next]_vars

\* ------------------------------------------------- the Reader, many files
\* FileAPI::from(path).split(c) on a file of InitTexts
HandleInit ==
    /\ fs \in {FileOf(t) : t \in InitTexts}
    /\ file \in {[split |-> c] : c \in Delims}
    /\ reader = NoSession
    /\ changer = NoSession
    /\ other = NoSession
    /\ builder = NoSession
    /\ overflow_checks \in BOOLEAN
    /\ last = Ok("split", <<file.split>>, <<>>)
    /\ calls = 0
    /\ log = NoLog

ReadNext ==
    \/ Uncounted(MakeReader)
    \/ Uncounted(ReadToString)
    \/ Uncounted(\E line \in Args, row \in Args : ReadValue(line, row))
    \/ Uncounted(ReaderExecute)
    \/ Uncounted(\E len \in Args : ReadHeader(len))
    \/ Uncounted(ReadFooter)
    \/ Uncounted(\E header \in BodyArgs, footer \in BodyArgs : ReadBody(header, footer))
    \/ Uncounted(CountLines)
    \/ Uncounted(\E row \in Args : ReadCsv(row))

SpecRead == HandleInit /\ [][ReadNext]_vars

\* --------------------------------------------- one Changer, many files
\* the files of Examples, the empty file and the file of one empty line
EditTexts == Examples \cup { <<>>, <<LF>> }

EditInit ==
    /\ fs \in {FileOf(t) : t \in EditTexts}
    /\ file \in {[split |-> c] : c \in Delims}
    /\ reader = NoSession
    /\ changer = NoSession
    /\ other = NoSession
    /\ builder = NoSession
    /\ overflow_checks \in BOOLEAN
    /\ last = Ok("split", <<file.split>>, <<>>)
    /\ calls = 0
    /\ log = NoLog

EditNext ==
    \/ Uncounted(~changer.live /\ MakeChanger)
    \/ Uncounted(\E line \in Args, row \in Args, value \in Values :
                    ChangeValue(line, row, value))
    \/ Uncounted(ChangerExecute)

SpecEdit == EditInit /\ [][EditNext]_vars

\* ------------------------------------------- two sessions on the same path
RECURSIVE Replay(_, _, _, _)
\* the Changer c after the change_value calls of edits, in order
Replay(c, d, edits, checks) ==
    IF edits = <<>> THEN c
    ELSE Replay(change_value(c, d, Head(edits)[1], Head(edits)[2], Head(edits)[3],
                             checks).val,
                d, Tail(edits), checks)

\* FileAPI::changer, called while another Changer is open
OtherChanger ==
    /\ Running
    /\ LET c == Changer_from(fs)
       IN  IF c.ok
           THEN /\ other' = c.val
                /\ log' = [log EXCEPT !.other_edits = <<>>]
                /\ last' = Ok("other_changer", <<>>, <<>>)
           ELSE /\ last' = Panic("other_changer", <<>>)
                /\ UNCHANGED <<other, log>>
    /\ UNCHANGED <<fs, file, reader, changer, builder, overflow_checks>>

\* Changer::change_value on the second Changer
OtherChangeValue(line, row, value) ==
    /\ Running /\ other.live
    /\ LET c == change_value(other, file.split, line, row, value, overflow_checks)
       IN  IF c.ok /\ Len(log.other_edits) >= MaxEdits THEN FALSE
           ELSE IF c.ok
           THEN /\ other' = c.val
                /\ log' = [log EXCEPT !.other_edits = Append(@, <<line, row, value>>)]
                /\ last' = Ok("other_change_value", <<line, row, value>>, <<>>)
           ELSE /\ last' = Panic("other_change_value", <<line, row, value>>)
                /\ UNCHANGED <<other, log>>
    /\ UNCHANGED <<fs, file, reader, changer, builder, overflow_checks>>

\* execute of the second Changer reading the file again and redoing its
\* changes on what the file holds now
OtherExecute_reload ==
    /\ Running /\ other.live
    /\ fs' = execute_file(fs, Replay(Changer_from(fs).val, file.split,
                                     log.other_edits, overflow_checks).lines)
    /\ last' = Ok("other_execute", <<>>, <<>>)
    /\ UNCHANGED <<file, reader, changer, other, builder, overflow_checks, log>>

\* Changer::execute on the second Changer
OtherExecute ==
    /\ Running /\ other.live
    /\ fs' = execute_file(fs, other.lines)
    /\ last' = Ok("other_execute", <<>>, <<>>)
    /\ UNCHANGED <<file, reader, changer, other, builder, overflow_checks, log>>

RaceCalls == MaxCalls + 1
RaceTexts == { <<"1", COMMA, "2", LF, "3", COMMA, "4", LF>> }
RaceArgs == {1, 2}
\* the two Changers write different values
RaceValues == {<<"7">>}
OtherValues == {<<"8">>}
RaceLines == {<<"9">>}

\* a call on the handle, the Reader, the first Changer or the Builder
First(A) == calls < RaceCalls /\ calls' = calls + 1 /\ other' = other /\ A

\* a call that makes or uses the second Changer
Second(A) == calls < RaceCalls /\ calls' = calls + 1 /\ A

RaceInit ==
    /\ fs \in {FileOf(t) : t \in RaceTexts}
    /\ file \in {[split |-> c] : c \in Delims}
    /\ reader = NoSession
    /\ changer = NoSession
    /\ other = NoSession
    /\ builder = NoSession
    /\ overflow_checks \in BOOLEAN
    /\ last = Ok("split", <<file.split>>, <<>>)
    /\ calls = 0
    /\ log = NoLog

RaceNext ==
    \/ First(MakeReader)
    \/ First(ReadToString)
    \/ First(MakeChanger)
    \/ First(\E line \in RaceArgs, row \in RaceArgs, value \in RaceValues :
                ChangeValue(line, row, value))
    \/ First(ChangerExecute)
    \/ Second(OtherChanger)
    \/ Second(\E line \in RaceArgs, row \in RaceArgs, value \in OtherValues :
                 OtherChangeValue(line, row, value))
    \/ Second(OtherExecute)
    \/ First(MakeBuilder)
    \/ First(\E line \in RaceLines : WriteLine(line))
    \/ First(BuilderExecute)

SpecRace == RaceInit /\ [][RaceNext]_vars

\* ------------------------------------------------- what the claims refer to
\* the valid coordinates of a text: (line, row), both from 1
Coords(text, d) ==
    LET ls == str_lines(text)
    IN  {<<l, r>> : l \in 1..Len(ls), r \in 1..4} \cap
        UNION {{<<l, r>> : r \in 1..Len(str_split(ls[l], d))} : l \in 1..Len(ls)}

\* the field at a valid coordinate, by splitting the line by hand
FieldAt(text, d, l, r) == str_split(str_lines(text)[l], d)[r]

\* the text that holds the given lines, each ended by one newline
TextOf(ls) == Concat([i \in 1..Len(ls) |-> ls[i] \o <<LF>>])

\* the lines of the text, the field at (l, r) replaced by v
LinesReplace(text, d, l, r, v) ==
    LET ls == str_lines(text)
        cells == str_split(ls[l], d)
    IN  [i \in 1..Len(ls) |->
            IF i = l
            THEN join(SubSeq(cells, 1, r - 1) \o <<v>> \o SubSeq(cells, r + 1, Len(cells)), d)
            ELSE ls[i]]

\* the text with the bytes of the field at (l, r) replaced by v and every other
\* byte, line ends included, kept
ByteReplace(text, d, l, r, v) ==
    LET pieces == SplitInclusive(text, LF, <<>>)
        body == StripLineEnd(pieces[l])
        ending == SubSeq(pieces[l], Len(body) + 1, Len(pieces[l]))
        cells == str_split(body, d)
    IN  Concat(SubSeq(pieces, 1, l - 1))
          \o join(SubSeq(cells, 1, r - 1) \o <<v>> \o SubSeq(cells, r + 1, Len(cells)), d)
          \o ending
          \o Concat(SubSeq(pieces, l + 1, Len(pieces)))

\* what reader().read_value(l, r) queues on the file f, and what execute()
\* then returns
FreshQueue(f, d, l, r, checks) ==
    LET rd == Reader_from(f)
    IN  IF rd.ok THEN read_value(rd.val, d, l, r, checks)
        ELSE [ok |-> FALSE, val |-> rd.val]
FreshRead(f, d, l, r, checks) ==
    LET q == FreshQueue(f, d, l, r, checks)
    IN  IF q.ok THEN Reader_execute(q.val) ELSE [ok |-> FALSE, val |-> <<>>]

Contains(text, c) == \E i \in 1..Len(text) : text[i] = c

\* ------------------------------------------------------------------- C1
\* the Changer has made exactly one change and has just executed
OneEditCommitted ==
    /\ last.op = "changer_execute"
    /\ Len(log.edits) = 1

\* after the commit a fresh reader reads v at (l, r)
C1_ReadsBack(l, r, v) ==
    LET q == FreshQueue(fs, file.split, l, r, overflow_checks)
        x == FreshRead(fs, file.split, l, r, overflow_checks)
    IN  /\ q.ok /\ q.val.values = <<v>>
        /\ x = (IF parse(trim(v)).ok
                THEN [ok |-> TRUE, val |-> <<parse(trim(v)).val>>]
                ELSE [ok |-> FALSE, val |-> <<>>])

\* after the commit every other coordinate reads as before
C1_OthersUnchanged(l, r) ==
    /\ Coords(fs.text, file.split) = Coords(log.orig, file.split)
    /\ \A c \in Coords(log.orig, file.split) \ {<<l, r>>} :
          /\ trim(FieldAt(fs.text, file.split, c[1], c[2]))
               = trim(FieldAt(log.orig, file.split, c[1], c[2]))
          /\ FreshRead(fs, file.split, c[1], c[2], overflow_checks)
               = FreshRead(FileOf(log.orig), file.split, c[1], c[2], overflow_checks)

\* C1 as claimed: for every replacement value, after change_value(line, row,
\* value) and execute a fresh reader reads the value back at (line, row), every
\* other coordinate is unchanged, and the file is byte for byte the original
\* except for the changed field.
C1_Original ==
    OneEditCommitted =>
        LET e == log.edits[1]
        IN  /\ C1_ReadsBack(e[1], e[2], e[3])
            /\ C1_OthersUnchanged(e[1], e[2])
            /\ fs.text = ByteReplace(log.orig, file.split, e[1], e[2], e[3])

\* the value holds no separator and no line end character
PlainValue(v, d) == ~Contains(v, d) /\ ~Contains(v, LF) /\ ~Contains(v, CR)

\* C1 as amended: for a replacement value that holds neither the separator nor
\* a newline nor a carriage return, after change_value(line, row, value) and
\* execute a fresh reader reads the value back at (line, row) (execute returns
\* it trimmed and parsed), every other coordinate reads as before, and the file
\* holds the lines of the original, changed only in that field, each ended by
\* exactly one "\n" (a missing final newline is added, "\r\n" becomes "\n").
C1_Theorem ==
    (OneEditCommitted /\ PlainValue(log.edits[1][3], file.split)) =>
        LET e == log.edits[1]
        IN  /\ C1_ReadsBack(e[1], e[2], e[3])
            /\ C1_OthersUnchanged(e[1], e[2])
            /\ fs.text = TextOf(LinesReplace(log.orig, file.split, e[1], e[2], e[3]))

\* a committed change of a padded number in a file of several lines and
\* fields that had no final newline
C1_Witness ==
    /\ OneEditCommitted
    /\ PlainValue(log.edits[1][3], file.split)
    /\ log.edits[1][3] = <<SP, "7">>
    /\ Cardinality(Coords(log.orig, file.split)) >= 4
    /\ log.orig # <<>> /\ Last(log.orig) # LF
    /\ fs.text # log.orig

\* ------------------------------------------------------------------- C2
\* C2: after a Builder session with lines L1..LN executes, the file holds
\* exactly L1..LN, each ended by a newline, whatever the file was before (absent,
\* shorter, longer); a fresh reader's read_to_string returns exactly that text;
\* executing the same session again leaves the same content.
C2_Theorem ==
    last.op = "builder_execute" =>
        /\ fs = FileOf(TextOf(builder.lines))
        /\ Reader_from(fs).ok
        /\ read_to_string(Reader_from(fs).val) = TextOf(builder.lines)

\* a Builder of two lines has executed over a file that was longer: a Reader
\* made before still holds the old, longer text
C2_Witness ==
    /\ last.op = "builder_execute"
    /\ Len(builder.lines) = 2
    /\ reader.live
    /\ Len(reader.lines) > Len(fs.text)
    /\ fs.text = builder.lines[1] \o <<LF>> \o builder.lines[2] \o <<LF>>

\* ------------------------------------------------------------------- C3
\* (line, row) is no coordinate of the lines ls: one of them is 0 or past the end
OutOfRange(ls, d, line, row) ==
    \/ line = 0 \/ line > Len(ls)
    \/ row = 0 \/ row > Len(str_split(ls[line], d))

\* the step is a call of read_value with a coordinate out of range
BadReadValue ==
    /\ calls' # calls /\ last'.op = "read_value"
    /\ OutOfRange(str_lines(reader.lines), file.split, last'.args[1], last'.args[2])

\* the step is a call of change_value with a coordinate out of range
BadChangeValue ==
    /\ calls' # calls /\ last'.op = "change_value"
    /\ OutOfRange(changer.lines, file.split, last'.args[1], last'.args[2])

\* C3: a read_value or change_value call with a line or row that is 0 or past
\* the line count / the field count of the line fails at that call, and leaves
\* the Reader's queue, the Changer's lines and the file as they were.
C3_Theorem ==
    [][(BadReadValue \/ BadChangeValue) =>
          /\ last'.status = "panic"
          /\ reader' = reader
          /\ changer' = changer
          /\ fs' = fs]_vars

\* a change_value out of range has failed on a Changer that holds an earlier
\* change, beside a Reader that holds a queued value
C3_Witness ==
    /\ last.op = "change_value" /\ last.status = "panic"
    /\ OutOfRange(changer.lines, file.split, last.args[1], last.args[2])
    /\ Len(log.edits) = 1
    /\ changer.lines # str_lines(log.orig)
    /\ reader.live /\ Len(reader.values) = 1

\* ------------------------------------------------------------------- C8
WritesFile == {"changer_execute", "builder_execute", "remove"}

\* C8: the file changes only at Changer::execute, Builder::execute and
\* FileAPI::remove; every other call (split, reader, changer, builder,
\* read_value, change_value, write_line, the Reader's reads) leaves its existence
\* and content, hence what a fresh reader sees, unchanged.
C8_Theorem ==
    [][last'.op \notin WritesFile =>
          /\ fs' = fs
          /\ Reader_from(fs') = Reader_from(fs)]_vars

\* uncommitted sessions: a Changer that holds a change, a Builder that holds a
\* line and a Reader that holds a value, and the file is still the initial one
C8_Witness ==
    /\ changer.live /\ Len(log.edits) = 1 /\ changer.lines # str_lines(fs.text)
    /\ builder.live /\ Len(builder.lines) = 1
    /\ reader.live /\ Len(reader.values) = 1
    /\ fs \in {FileOf(t) : t \in LifeTexts}
    /\ reader.lines = fs.text

\* ------------------------------------------------------------------- C9
\* C9: reader() and changer() fail whenever the file does not exist; builder()
\* never fails and does not create the file; after Builder::execute the file
\* exists; remove() deletes an existing file and fails on a missing one;
\* is_exist() never fails and tells whether the file exists.
C9_Theorem ==
    [][calls' # calls =>
          /\ (last'.op \in {"reader", "changer"} /\ ~fs.exists) => last'.status = "panic"
          /\ last'.op = "builder" => (last'.status = "ok" /\ builder'.live /\ fs' = fs)
          /\ last'.op = "builder_execute" => (last'.status = "ok" /\ is_exist(fs'))
          /\ (last'.op = "remove" /\ fs.exists) => (last'.status = "ok" /\ ~is_exist(fs'))
          /\ (last'.op = "remove" /\ ~fs.exists) => (last'.status = "panic" /\ fs' = fs)
          /\ last'.op = "is_exist" =>
                (last'.status = "ok" /\ last'.result = fs.exists /\ fs' = fs)]_vars

\* the file a Builder session wrote its line to has been removed
C9_Witness ==
    /\ last.op = "remove" /\ last.status = "ok"
    /\ ~fs.exists
    /\ builder.live /\ Len(builder.lines) = 1
    /\ ~reader.live /\ ~changer.live
    /\ calls = 5

\* ------------------------------------------------------------------- C4
\* the fields of a line, each trimmed and parsed as a number
ParsedLine(line, d) ==
    LET cells == str_split(line, d)
    IN  [j \in 1..Len(cells) |-> parse(trim(cells[j])).val]

\* every field of the line parses once trimmed
LineParses(line, d) ==
    \A j \in 1..Len(str_split(line, d)) : parse(trim(str_split(line, d)[j])).ok

\* C4: the queue of a Reader holds, in call order, the field at each
\* (line_i, row_i) of its snapshot, and Reader::execute returns these fields
\* trimmed and parsed, one per read_value call, in call order.
C4_Theorem ==
    reader.live =>
        /\ Len(reader.values) = Len(log.reads)
        /\ \A i \in 1..Len(log.reads) :
              /\ ~OutOfRange(str_lines(reader.lines), file.split,
                             log.reads[i][1], log.reads[i][2])
              /\ reader.values[i] =
                    FieldAt(reader.lines, file.split, log.reads[i][1], log.reads[i][2])
        /\ (last.op = "reader_execute" /\ last.status = "ok") =>
              /\ Len(last.result) = Len(log.reads)
              /\ \A i \in 1..Len(log.reads) :
                    LET cell == FieldAt(reader.lines, file.split,
                                        log.reads[i][1], log.reads[i][2])
                    IN  parse(trim(cell)).ok /\ last.result[i] = parse(trim(cell)).val

\* two values were queued against the order of the file, line 2 before line 1,
\* and execute has returned them in call order
C4_Witness ==
    /\ last.op = "reader_execute" /\ last.status = "ok"
    /\ log.reads = << <<2, 1>>, <<1, 2>> >>
    /\ last.result = <<3, 2>>

\* ------------------------------------------------------------------- C5
\* lines header+1 .. n-footer of the snapshot, parsed
BodyOf(ls, d, header, footer) ==
    [i \in 1..(Len(ls) - header - footer) |-> ParsedLine(ls[header + i], d)]

\* C5: with header + footer <= n, read_body(header, footer) returns exactly
\* the lines header+1 .. n-footer, parsed, in file order: n - header - footer
\* sequences, none of the first header lines and none of the last footer lines.
C5_Theorem ==
    (last.op = "read_body" /\ reader.live) =>
        LET ls == str_lines(reader.lines)
            header == last.args[1]
            footer == last.args[2]
        IN  header + footer <= Len(ls) =>
              /\ last.status = "ok" => last.result = BodyOf(ls, file.split, header, footer)
              /\ (\A i \in (header + 1)..(Len(ls) - footer) : LineParses(ls[i], file.split))
                    => last.status = "ok"

\* read_body(1, 1) of a file of three lines has returned the middle line
C5_Witness ==
    /\ last.op = "read_body" /\ last.status = "ok"
    /\ last.args = <<1, 1>>
    /\ Len(str_lines(reader.lines)) = 3
    /\ last.result = << <<3, 4>> >>

\* ------------------------------------------------------------------- C6
\* C6: read_header(len) with 1 <= len <= n returns exactly len sequences, the
\* parsed lines 1..len in file order, whatever the lines after them hold;
\* read_header(0) fails; read_header(len) with len > n fails.
C6_Theorem ==
    (last.op = "read_header" /\ reader.live) =>
        LET ls == str_lines(reader.lines)
            len == last.args[1]
        IN  /\ len = 0 => last.status = "panic"
            /\ len > Len(ls) => last.status = "panic"
            /\ (1 <= len /\ len <= Len(ls)) =>
                  /\ last.status = "ok" =>
                        last.result = [i \in 1..len |-> ParsedLine(ls[i], file.split)]
                  /\ (\A i \in 1..len : LineParses(ls[i], file.split))
                        => last.status = "ok"

\* read_header(1) has returned the first line of a file whose second line
\* does not parse
C6_Witness ==
    /\ last.op = "read_header" /\ last.status = "ok"
    /\ last.args = <<1>>
    /\ last.result = << <<1, 2>> >>
    /\ Len(str_lines(reader.lines)) = 2
    /\ ~LineParses(str_lines(reader.lines)[2], file.split)

\* ------------------------------------------------------------------- C7
\* the field at position row of every line after the first, split on a comma
CsvColumn(ls, row) ==
    [k \in 1..(Len(ls) - 1) |-> str_split(ls[k + 1], COMMA)[row]]

\* the values read_csv has returned are the column, parsed without a trim
CsvValues(ls, row) ==
    \A k \in 1..Len(last.result) :
        /\ row >= 1 /\ row <= Len(str_split(ls[k + 1], COMMA))
        /\ parse(CsvColumn(ls, row)[k]).ok
        /\ last.result[k] = parse(CsvColumn(ls, row)[k]).val

\* C7 as stated: the result of read_csv(row) has line count minus 1 values,
\* the k-th parsed from field row of line k+1 split on a comma, whatever the
\* separator of the handle.
C7_Original ==
    (last.op = "read_csv" /\ last.status = "ok" /\ reader.live) =>
        LET ls == str_lines(reader.lines)
        IN  /\ Len(last.result) = Len(ls) - 1
            /\ CsvValues(ls, last.args[1])

\* C7: the result of read_csv(row) has one value per line after the first
\* (line count minus 1 values when the snapshot has a line, none when it is
\* empty), the k-th parsed from field row of line k+1 split on a comma, whatever
\* the separator of the handle.
C7_Theorem ==
    (last.op = "read_csv" /\ last.status = "ok" /\ reader.live) =>
        LET ls == str_lines(reader.lines)
        IN  /\ Len(last.result) = IF ls = <<>> THEN 0 ELSE Len(ls) - 1
            /\ CsvValues(ls, last.args[1])

\* a handle split on a space has read the second column of a file of three
\* comma-separated lines
C7_Witness ==
    /\ last.op = "read_csv" /\ last.status = "ok"
    /\ file.split = SP
    /\ last.args = <<2>>
    /\ Len(str_lines(reader.lines)) = 3
    /\ last.result = <<4, 6>>

\* ------------------------------------------------------------------ C10
\* C10 as stated: read_body(header, footer) with header + footer above the
\* line count fails.
C10_Original ==
    (last.op = "read_body" /\ reader.live) =>
        (last.args[1] + last.args[2] > Len(str_lines(reader.lines))
            => last.status = "panic")

\* C10: with header + footer above the line count n, read_body(header, footer)
\* returns the empty sequence when footer <= n (nothing underflows, every line
\* is skipped); when footer > n the subtraction underflows: a build with
\* overflow checks fails there, a build without them wraps the bound to
\* 2^w - (footer - n) and fails at the exhausted iterator, unless header is at
\* least the wrapped bound, where every iteration skips and the result is empty.
C10_Theorem ==
    (last.op = "read_body" /\ reader.live) =>
        LET n == Len(str_lines(reader.lines))
            header == last.args[1]
            footer == last.args[2]
            wrapped == UsizeModulus - (footer - n)
        IN  header + footer > n =>
              IF footer <= n THEN last.status = "ok" /\ last.result = <<>>
              ELSE IF overflow_checks THEN last.status = "panic"
              ELSE IF header >= wrapped THEN last.status = "ok" /\ last.result = <<>>
              ELSE last.status = "panic"

\* read_body(3, 1) of a file of three lines has returned the empty sequence
C10_Witness ==
    /\ last.op = "read_body" /\ last.status = "ok"
    /\ last.args = <<3, 1>>
    /\ Len(str_lines(reader.lines)) = 3
    /\ last.result = <<>>


\* ------------------------------------------------------------------ C11
\* the step is a call that returned
Returned(op) == calls' # calls /\ last'.op = op /\ last'.status = "ok"

\* the step leaves every session in memory as it is
SessionsKept ==
    /\ reader' = reader /\ changer' = changer /\ other' = other /\ builder' = builder

\* C11: a session works on the snapshot taken when it was made. A new Changer
\* holds the lines of the file as it is then, a new Reader its text; an execute
\* of either Changer or of the Builder never fails, leaves the file with exactly
\* the lines of the session that executes, whatever an earlier execute of
\* another session wrote, and changes no session in memory; read_to_string
\* returns the text the Reader was made with.
C11_Theorem ==
    [][/\ Returned("changer") => changer'.lines = str_lines(fs.text)
       /\ Returned("other_changer") => other'.lines = str_lines(fs.text)
       /\ Returned("reader") => reader'.lines = fs.text
       /\ (calls' # calls /\ last'.op = "changer_execute") =>
             /\ last'.status = "ok"
             /\ fs' = FileOf(TextOf(changer.lines))
             /\ SessionsKept
       /\ (calls' # calls /\ last'.op = "other_execute") =>
             /\ last'.status = "ok"
             /\ fs' = FileOf(TextOf(other.lines))
             /\ SessionsKept
       /\ (calls' # calls /\ last'.op = "builder_execute") =>
             /\ last'.status = "ok"
             /\ fs' = FileOf(TextOf(builder.lines))
             /\ SessionsKept
       /\ Returned("read_to_string") =>
             (last'.result = reader.lines /\ reader' = reader)]_vars

\* two Changers made on the same file have each changed another field; the
\* first has executed, a Reader made then holds its text with the 7, and the
\* second has executed after it: the file holds the 8 and the 7 is lost
C11_Witness ==
    /\ last.op = "other_execute" /\ last.status = "ok"
    /\ file.split = COMMA
    /\ log.edits = << <<1, 1, <<"7">> >> >>
    /\ log.other_edits = << <<2, 2, <<"8">> >> >>
    /\ reader.live
    /\ reader.lines = <<"7", COMMA, "2", LF, "3", COMMA, "4", LF>>
    /\ fs.text = <<"1", COMMA, "2", LF, "3", COMMA, "8", LF>>


\* ------------------------------------------------------------------ C12
\* the valid coordinates of the lines of a Changer
LineCoords(ls, d) ==
    UNION {{<<l, r>> : r \in 1..Len(str_split(ls[l], d))} : l \in 1..Len(ls)}

\* the value holds neither the separator nor a newline
NoSeparator(v, d) == ~Contains(v, d) /\ ~Contains(v, LF)

\* the step is a change_value call that returned
Edited ==
    /\ last'.op = "change_value" /\ last'.status = "ok"
    /\ log'.edits = Append(log.edits, last'.args)

\* the lines and the fields around the coordinate of the step
EditFrame ==
    LET l == last'.args[1]
        r == last'.args[2]
        v == last'.args[3]
        d == file.split
        old == str_split(changer.lines[l], d)
        new == str_split(changer'.lines[l], d)
    IN  /\ <<l, r>> \in LineCoords(changer.lines, d)
        /\ Len(changer'.lines) = Len(changer.lines)
        /\ \A i \in 1..Len(changer.lines) : i # l => changer'.lines[i] = changer.lines[i]
        /\ new = SubSeq(old, 1, r - 1) \o str_split(v, d) \o SubSeq(old, r + 1, Len(old))
        /\ NoSeparator(v, d) =>
              /\ Len(new) = Len(old)
              /\ new[r] = v
              /\ \A j \in 1..Len(old) : j # r => new[j] = old[j]
              /\ LineCoords(changer'.lines, d) = LineCoords(changer.lines, d)

\* two changes without a separator at distinct coordinates of the Changer c
\* both return, in either order, and give the same lines
Commute(c, d, checks) ==
    \A p \in LineCoords(c.lines, d), q \in LineCoords(c.lines, d) :
        \A v \in Values, w \in Values :
            (p # q /\ NoSeparator(v, d) /\ NoSeparator(w, d)) =>
                LET pq == Replay(c, d, << <<p[1], p[2], v>>, <<q[1], q[2], w>> >>, checks)
                    qp == Replay(c, d, << <<q[1], q[2], w>>, <<p[1], p[2], v>> >>, checks)
                    first == change_value(c, d, p[1], p[2], v, checks)
                IN  /\ first.ok
                    /\ change_value(first.val, d, q[1], q[2], w, checks).ok
                    /\ pq = qp

=============================================================================
